---- MODULE Spec2Model ----
(***************************************************************************)
(* Model of the cache simulator csim (final draft, src/unnamed/part_000    *)
(* lines 231-679): an array of doubly linked lists with sentinel head and  *)
(* tail nodes, one list per cache set, replayed against a memory trace.    *)
(*                                                                         *)
(* The heap is a sequence of nodes; a pointer is an index into it and      *)
(* NULL is 0.  malloc returns a fresh index, whose fields are Uninit.      *)
(* Unsigned long counters are kept as representatives modulo 2^64: a       *)
(* negative representative v stands for the wrapped value 2^64 + v.        *)
(***************************************************************************)
EXTENDS Integers, Sequences, FiniteSets, TLC

\* ------------------------------------------------------------------------
\* Bounds of the model
\* ------------------------------------------------------------------------
MaxSetBit == 1
MaxBlockBit == 1
MaxLines == 2
MaxAddr == 3
MaxAccesses == 3
MaxBlock == 1

\* ------------------------------------------------------------------------
\* Values
\* ------------------------------------------------------------------------
NULL == 0
Uninit == -1

Ops == {"L", "S"}
Addresses == 0..MaxAddr
Blocks == 1..MaxBlock

VARIABLES
    setBit,       \* int setBit
    blockBit,     \* int blockBit
    linesPerSet,  \* int linesPerSet
    cache,        \* DLL* cache : set index -> [head, tail]
    heap,         \* the malloc'ed Nodes: index -> [next, prev, tag, dirty]
    freed,        \* indices of the Nodes passed to free
    myStats,      \* csim_stats_t myStats
    trace,        \* the records cacheOperation has processed (returned 0)
    outcome,      \* the branch the last cacheOperation call returned from
    pc,           \* "run": in the loop of mainProcess; "exit0", "exit1": main returned; "crash"
    quit,         \* int quit
    verbose,      \* int verbose
    fileName,     \* char fileName[FILELENGTH]
    printed       \* what the printf calls of this file have written to stdout

vars == <<setBit, blockBit, linesPerSet, cache, heap, freed, myStats, trace, outcome, pc,
          quit, verbose, fileName, printed>>

\* ------------------------------------------------------------------------
\* C operators on unsigned long.  The addresses of the model are below
\* 2^31, so that a shift right by 31 or more leaves 0 and a mask of 31 or
\* more ones keeps every bit.
\* ------------------------------------------------------------------------
\* a >> n
Shr(a, n) == IF n >= 31 THEN 0 ELSE a \div (2 ^ n)

\* a << n
Shl(a, n) == a * (2 ^ n)

\* a & b, bit by bit
RECURSIVE BitAnd(_, _)
BitAnd(a, b) ==
    IF a = 0 \/ b = 0 THEN 0
    ELSE (IF a % 2 = 1 /\ b % 2 = 1 THEN 1 ELSE 0) + 2 * BitAnd(a \div 2, b \div 2)

\* a & ((1L << n) - 1L)
MaskLow(a, n) == IF n >= 31 THEN a ELSE BitAnd(a, Shl(1, n) - 1)

\* ------------------------------------------------------------------------
\* int arithmetic
\* ------------------------------------------------------------------------
\* INT_MAX of the 32-bit int of setBit, blockBit and linesPerSet
IntMax == 2147483647

\* a + b of two ints that are not negative leaves the range of int
Overflows(a, b) == a >= 0 /\ b >= 0 /\ b > IntMax - a

\* a + b in int, wrapped into the range where it overflows
IntAdd(a, b) == IF Overflows(a, b) THEN ((a - IntMax) - 1) + ((b - IntMax) - 1) ELSE a + b

\* ------------------------------------------------------------------------
\* main: unsigned long setNum = 1 << setBit
\* ------------------------------------------------------------------------
SetNum(s) == Shl(1, s)

\* the values 1 << s can have as an int converted to unsigned long.  Up to
\* s = 30 it is 2^s.  From 31 on the shift is undefined: a processor that
\* takes the count modulo 32 gives 1 << (s % 32), where 1 << 31 is INT_MIN,
\* which the conversion makes 2^64 - 2^31, written -IntMax - 1 here; a
\* processor that shifts all bits out gives 0.
SetNums(s) ==
    IF s <= 30 THEN {SetNum(s)}
    ELSE IF s % 32 = 31 THEN {(0 - IntMax) - 1}
    ELSE {SetNum(s % 32), 0}

\* the argument check of main, for the geometry part of the arguments
ValidGeometry(s, b, e) == ~(s < 0 \/ b < 0 \/ e <= 0 \/ IntAdd(s, b) >= 64)

\* a Node as malloc returns it
FreshNode == [next |-> Uninit, prev |-> Uninit, tag |-> Uninit, dirty |-> Uninit]

\* ------------------------------------------------------------------------
\* initializeCache
\* ------------------------------------------------------------------------
\* cache[i].head is node 2i+1, cache[i].tail is node 2i+2
InitCache(setNum) == [i \in 0..(setNum - 1) |-> [head |-> 2 * i + 1, tail |-> 2 * i + 2]]

InitHeap(setNum) ==
    [n \in 1..(2 * setNum) |->
        IF n % 2 = 1 THEN [FreshNode EXCEPT !.next = n + 1]
                     ELSE [FreshNode EXCEPT !.prev = n - 1]]

\* ------------------------------------------------------------------------
\* addLast, deleteNode
\* ------------------------------------------------------------------------
\* addLast of the earlier draft (src/csim.c line 125), which always appends to
\* the list of cache[0]
AddLastSetZero(h, index, n) ==
    LET tail == cache[0].tail
        h1 == [h EXCEPT ![h[tail].prev].next = n]
        h2 == [h1 EXCEPT ![n].prev = h1[tail].prev]
        h3 == [h2 EXCEPT ![n].next = tail]
    IN  [h3 EXCEPT ![tail].prev = n]

AddLast(h, index, n) ==
    LET tail == cache[index].tail
        h1 == [h EXCEPT ![h[tail].prev].next = n]
        h2 == [h1 EXCEPT ![n].prev = h1[tail].prev]
        h3 == [h2 EXCEPT ![n].next = tail]
    IN  [h3 EXCEPT ![tail].prev = n]

\* deleteNode without n->prev->next = n->next
DeleteNodeBackwardOnly(h, n) == [h EXCEPT ![h[n].next].prev = h[n].prev]

\* deleteNode without n->next->prev = n->prev
DeleteNodeForwardOnly(h, n) == [h EXCEPT ![h[n].prev].next = h[n].next]

DeleteNode(h, n) ==
    LET h1 == [h EXCEPT ![h[n].prev].next = h[n].next]
    IN  [h1 EXCEPT ![h1[n].next].prev = h1[n].prev]

\* ------------------------------------------------------------------------
\* cacheOperation
\* ------------------------------------------------------------------------
ThisTag(address) == Shr(address, setBit + blockBit)

\* the mask taken as 1L << setBit, without the - 1L
ThisSetNumMaskOff(address) == BitAnd(Shr(address, blockBit), Shl(1, setBit))

\* the set number taken from the address without the shift by blockBit
ThisSetNumNoShift(address) == MaskLow(address, setBit)

ThisSetNum(address) == MaskLow(Shr(address, blockBit), setBit)

\* the block size taken from the set bits
BlockByteNumFromSetBit == Shl(1, setBit)

BlockByteNum == Shl(1, blockBit)

\* the size loop: the nodes from sizeCheck up to the tail
RECURSIVE ListSize(_, _, _)
ListSize(h, sizeCheck, tail) ==
    IF sizeCheck = tail THEN 0 ELSE 1 + ListSize(h, h[sizeCheck].next, tail)

\* the tag loop leaving after the first node
TagScanFirstOnly(h, curr, tail, thisTag) ==
    IF h[curr].tag = thisTag THEN curr ELSE tail

\* the tag loop taking every node for a match
TagScanAlwaysMatch(h, curr, tail, thisTag) == curr

\* the tag loop never matching
TagScanNeverMatch(h, curr, tail, thisTag) == tail

\* the tag loop entered at the second node
RECURSIVE TagScanRest(_, _, _, _)
TagScanRest(h, curr, tail, thisTag) ==
    IF curr = tail THEN tail
    ELSE IF h[curr].tag = thisTag THEN curr
    ELSE TagScanRest(h, h[curr].next, tail, thisTag)

TagScanSkipFirst(h, curr, tail, thisTag) == TagScanRest(h, h[curr].next, tail, thisTag)

\* the tag loop: the first node from curr on whose tag matches, or the tail
RECURSIVE TagScan(_, _, _, _)
TagScan(h, curr, tail, thisTag) ==
    IF curr = tail THEN tail
    ELSE IF h[curr].tag = thisTag THEN curr
    ELSE TagScan(h, h[curr].next, tail, thisTag)

\* the eviction taking the node before the tail
ToDeleteMRU(h, index) == h[cache[index].tail].prev

\* the Node evicted from a full set
ToDelete(h, index) == h[cache[index].head].next

\* the capacity counted over the lines of the whole cache
NeedsEvictionWholeCache(size) == myStats.misses - myStats.evictions >= linesPerSet

\* the eviction test as size > linesPerSet
NeedsEvictionGreater(size) == size > linesPerSet

\* the eviction test one line early
NeedsEvictionEarly(size) == size + 1 >= linesPerSet

\* if (size == linesPerSet)
NeedsEviction(size) == size = linesPerSet

\* the eviction taking every line for dirty
IsDirtyAlways(dirty) == TRUE

\* if (toDelete->dirty == 1)
IsDirty(dirty) == dirty = 1

\* the write hit taken on every hit, whatever the operation and the flag
MarksDirtyAnyOp(op, dirty) == TRUE

\* the write hit of the earlier draft (part_000 line 107): if (op == 'S')
MarksDirtyAlways(op, dirty) == op = "S"

\* if (op == 'S' && curr->dirty == 0)
MarksDirty(op, dirty) == op = "S" /\ dirty = 0

\* the cold miss without myStats.misses++
ColdMissUncounted(op, address, mallocOk) ==
    LET aNode == Len(heap) + 1
    IN  IF ~mallocOk
        THEN [heap |-> heap, freed |-> freed, stats |-> myStats, ret |-> 1, outcome |-> "AllocFail"]
        ELSE LET h1 == Append(heap, [FreshNode EXCEPT !.dirty = 0])
                 h2 == IF op = "S" THEN [h1 EXCEPT ![aNode].dirty = 1] ELSE h1
                 stats2 == IF op = "S"
                           THEN [myStats EXCEPT !.dirty_bytes = @ + BlockByteNum]
                           ELSE myStats
                 h3 == [h2 EXCEPT ![aNode].tag = ThisTag(address)]
             IN  [heap |-> AddLast(h3, ThisSetNum(address), aNode), freed |-> freed,
                  stats |-> stats2, ret |-> 0, outcome |-> "ColdMiss"]

\* size == 0
ColdMiss(op, address, mallocOk) ==
    LET stats1 == [myStats EXCEPT !.misses = @ + 1]
        aNode == Len(heap) + 1
    IN  IF ~mallocOk
        THEN [heap |-> heap, freed |-> freed, stats |-> stats1, ret |-> 1, outcome |-> "AllocFail"]
        ELSE LET h1 == Append(heap, [FreshNode EXCEPT !.dirty = 0])
                 h2 == IF op = "S" THEN [h1 EXCEPT ![aNode].dirty = 1] ELSE h1
                 stats2 == IF op = "S"
                           THEN [stats1 EXCEPT !.dirty_bytes = @ + BlockByteNum]
                           ELSE stats1
                 h3 == [h2 EXCEPT ![aNode].tag = ThisTag(address)]
             IN  [heap |-> AddLast(h3, ThisSetNum(address), aNode), freed |-> freed,
                  stats |-> stats2, ret |-> 0, outcome |-> "ColdMiss"]

\* the hit without deleteNode(curr) and addLast(thisSetNum, curr)
HitInPlace(op, address, curr) ==
    LET stats1 == [myStats EXCEPT !.hits = @ + 1]
        mark == MarksDirty(op, heap[curr].dirty)
        h1 == IF mark THEN [heap EXCEPT ![curr].dirty = 1] ELSE heap
        stats2 == IF mark THEN [stats1 EXCEPT !.dirty_bytes = @ + BlockByteNum] ELSE stats1
    IN  [heap |-> h1, freed |-> freed, stats |-> stats2, ret |-> 0, outcome |-> "Hit"]

\* the hit with myStats.hits++ moved into the if (verbose == 1) block
HitCountedWhenVerbose(op, address, curr) ==
    LET stats1 == IF verbose = 1 THEN [myStats EXCEPT !.hits = @ + 1] ELSE myStats
        mark == MarksDirty(op, heap[curr].dirty)
        h1 == IF mark THEN [heap EXCEPT ![curr].dirty = 1] ELSE heap
        stats2 == IF mark THEN [stats1 EXCEPT !.dirty_bytes = @ + BlockByteNum] ELSE stats1
        h2 == DeleteNode(h1, curr)
    IN  [heap |-> AddLast(h2, ThisSetNum(address), curr), freed |-> freed,
         stats |-> stats2, ret |-> 0, outcome |-> "Hit"]

\* if (hit)
Hit(op, address, curr) ==
    LET stats1 == [myStats EXCEPT !.hits = @ + 1]
        mark == MarksDirty(op, heap[curr].dirty)
        h1 == IF mark THEN [heap EXCEPT ![curr].dirty = 1] ELSE heap
        stats2 == IF mark THEN [stats1 EXCEPT !.dirty_bytes = @ + BlockByteNum] ELSE stats1
        h2 == DeleteNode(h1, curr)
    IN  [heap |-> AddLast(h2, ThisSetNum(address), curr), freed |-> freed,
         stats |-> stats2, ret |-> 0, outcome |-> "Hit"]

\* the miss without myStats.evictions++ where it evicts
MissEvictionUncounted(op, address, size, mallocOk) ==
    LET stats1 == [myStats EXCEPT !.misses = @ + 1]
        aNode == Len(heap) + 1
        index == ThisSetNum(address)
    IN  IF ~mallocOk
        THEN [heap |-> heap, freed |-> freed, stats |-> stats1, ret |-> 1, outcome |-> "AllocFail"]
        ELSE LET h1 == Append(heap, [FreshNode EXCEPT !.dirty = 0])
                 h2 == [h1 EXCEPT ![aNode].tag = ThisTag(address)]
                 h3 == IF op = "S" THEN [h2 EXCEPT ![aNode].dirty = 1] ELSE h2
                 stats2 == IF op = "S"
                           THEN [stats1 EXCEPT !.dirty_bytes = @ + BlockByteNum]
                           ELSE stats1
             IN  IF NeedsEviction(size)
                 THEN LET toDelete == ToDelete(h3, index)
                          stats4 == IF IsDirty(h3[toDelete].dirty)
                                    THEN [stats2 EXCEPT
                                            !.dirty_evictions = @ + BlockByteNum,
                                            !.dirty_bytes = @ - BlockByteNum]
                                    ELSE stats2
                          h4 == DeleteNode(h3, toDelete)
                      IN  [heap |-> AddLast(h4, index, aNode),
                           freed |-> freed \cup {toDelete},
                           stats |-> stats4, ret |-> 0, outcome |-> "MissEviction"]
                 ELSE [heap |-> AddLast(h3, index, aNode), freed |-> freed,
                       stats |-> stats2, ret |-> 0, outcome |-> "Miss"]

\* else: no tag match
Miss(op, address, size, mallocOk) ==
    LET stats1 == [myStats EXCEPT !.misses = @ + 1]
        aNode == Len(heap) + 1
        index == ThisSetNum(address)
    IN  IF ~mallocOk
        THEN [heap |-> heap, freed |-> freed, stats |-> stats1, ret |-> 1, outcome |-> "AllocFail"]
        ELSE LET h1 == Append(heap, [FreshNode EXCEPT !.dirty = 0])
                 h2 == [h1 EXCEPT ![aNode].tag = ThisTag(address)]
                 h3 == IF op = "S" THEN [h2 EXCEPT ![aNode].dirty = 1] ELSE h2
                 stats2 == IF op = "S"
                           THEN [stats1 EXCEPT !.dirty_bytes = @ + BlockByteNum]
                           ELSE stats1
             IN  IF NeedsEviction(size)
                 THEN LET stats3 == [stats2 EXCEPT !.evictions = @ + 1]
                          toDelete == ToDelete(h3, index)
                          stats4 == IF IsDirty(h3[toDelete].dirty)
                                    THEN [stats3 EXCEPT
                                            !.dirty_evictions = @ + BlockByteNum,
                                            !.dirty_bytes = @ - BlockByteNum]
                                    ELSE stats3
                          h4 == DeleteNode(h3, toDelete)
                      IN  [heap |-> AddLast(h4, index, aNode),
                           freed |-> freed \cup {toDelete},
                           stats |-> stats4, ret |-> 0, outcome |-> "MissEviction"]
                 ELSE [heap |-> AddLast(h3, index, aNode), freed |-> freed,
                       stats |-> stats2, ret |-> 0, outcome |-> "Miss"]

\* the call decided by the last byte of the access, address + block - 1
CacheOperationLastByte(op, address, block, mallocOk) ==
    LET last == address + block - 1
        index == ThisSetNum(last)
        tail == cache[index].tail
        first == heap[cache[index].head].next
        size == ListSize(heap, first, tail)
    IN  IF size = 0 THEN ColdMiss(op, last, mallocOk)
        ELSE LET curr == TagScan(heap, first, tail, ThisTag(last))
             IN  IF curr # tail THEN Hit(op, last, curr)
                 ELSE Miss(op, last, size, mallocOk)

\* the result of one call: the new heap, freed set and statistics, the return
\* value and the branch taken.  Where thisSetNum is not an index of the
\* array malloc'ed by initializeCache, cache[thisSetNum] is read outside the
\* array: the call does not return (ret 2) and the run is lost.
CacheOperation(op, address, block, mallocOk) ==
    IF DOMAIN cache = {} \/ ThisSetNum(address) \notin DOMAIN cache
    THEN [heap |-> heap, freed |-> freed, stats |-> myStats, ret |-> 2, outcome |-> "OutOfBounds"]
    ELSE
    LET index == ThisSetNum(address)
        tail == cache[index].tail
        first == heap[cache[index].head].next
        size == ListSize(heap, first, tail)
    IN  IF size = 0 THEN ColdMiss(op, address, mallocOk)
        ELSE LET curr == TagScan(heap, first, tail, ThisTag(address))
             IN  IF curr # tail THEN Hit(op, address, curr)
                 ELSE Miss(op, address, size, mallocOk)

\* ------------------------------------------------------------------------
\* cleanUp: the nodes free is called on, walking next from the head of every
\* set up to and including the tail
\* ------------------------------------------------------------------------
RECURSIVE Chain(_, _, _)
Chain(h, curr, tail) ==
    IF curr = tail THEN {tail} ELSE {curr} \cup Chain(h, h[curr].next, tail)

\* ------------------------------------------------------------------------
\* State machine
\* ------------------------------------------------------------------------
ZeroStats == [hits |-> 0, misses |-> 0, evictions |-> 0, dirty_bytes |-> 0, dirty_evictions |-> 0]

\* the state main is in when it calls mainProcess: the arguments were
\* accepted and initializeCache returned 0
Init ==
    /\ setBit \in 0..MaxSetBit
    /\ blockBit \in 0..MaxBlockBit
    /\ linesPerSet \in 1..MaxLines
    /\ ValidGeometry(setBit, blockBit, linesPerSet)
    /\ cache = InitCache(SetNum(setBit))
    /\ heap = InitHeap(SetNum(setBit))
    /\ freed = {}
    /\ myStats = ZeroStats
    /\ trace = <<>>
    /\ outcome = "none"
    /\ pc = "run"
    /\ quit = 0
    /\ verbose = 0
    /\ fileName = "trace"
    /\ printed = <<>>

\* mainProcess, if (verbose == 1): printf("%c %lx,%ld ", type, address, block)
Echo(op, address, block) == [text |-> "%c %lx,%ld ", args |-> <<op, address, block>>]

\* cacheOperation, if (verbose == 1): the printf of the branch returned from;
\* the two returns after a failed malloc print nothing
Report(branch) ==
    CASE branch = "ColdMiss" -> <<[text |-> "A Cold Miss\n", args |-> <<>>]>>
      [] branch = "Hit" -> <<[text |-> "Hit!\n", args |-> <<>>]>>
      [] branch = "MissEviction" -> <<[text |-> "A Cache Miss and Eviction\n", args |-> <<>>]>>
      [] branch = "Miss" -> <<[text |-> "A Cache Miss\n", args |-> <<>>]>>
      [] OTHER -> <<>>

\* mainProcess: fgets reads a well-formed line "op address,block" and
\* cacheOperation is called on it
Access(op, address, block, mallocOk) ==
    /\ pc = "run"
    /\ LET r == CacheOperation(op, address, block, mallocOk)
       IN  /\ heap' = r.heap
           /\ freed' = r.freed
           /\ myStats' = r.stats
           /\ outcome' = r.outcome
           /\ trace' = IF r.ret = 0 THEN Append(trace, [op |-> op, address |-> address]) ELSE trace
           /\ pc' = IF r.ret = 0 THEN "run" ELSE IF r.ret = 1 THEN "exit1" ELSE "crash"
           /\ printed' = IF verbose = 1
                         THEN printed \o <<Echo(op, address, block)>> \o Report(r.outcome)
                         ELSE printed
    /\ UNCHANGED <<setBit, blockBit, linesPerSet, cache, quit, verbose, fileName>>

\* mainProcess: fgets returns NULL, the file is closed and 0 returned; main
\* calls cleanUp, printSummary and returns 0.  cleanUp reads tail->next of
\* every set, which no code ever assigned: where the value read is not NULL
\* the walk leaves the list and the run is lost.  An array of no set has no
\* tail to read.
EndOfTrace(tailNextIsNull) ==
    /\ pc = "run"
    /\ IF tailNextIsNull \/ DOMAIN cache = {}
       THEN /\ freed' = freed \cup UNION {Chain(heap, cache[i].head, cache[i].tail) : i \in DOMAIN cache}
            /\ pc' = "exit0"
       ELSE /\ freed' = freed
            /\ pc' = "crash"
    /\ UNCHANGED <<setBit, blockBit, linesPerSet, cache, heap, myStats, trace, outcome,
                   quit, verbose, fileName, printed>>

Next ==
    \/ \E op \in Ops, address \in Addresses, block \in Blocks, mallocOk \in BOOLEAN :
           Len(trace) < MaxAccesses /\ Access(op, address, block, mallocOk)
    \/ \E tailNextIsNull \in BOOLEAN : EndOfTrace(tailNextIsNull)

Spec == Init /\ [][Next]_vars

\* The same program on one set of up to three lines with one-byte blocks, run on
\* the traces of up to five records over four addresses: the runs that fill
\* a three-line set and evict from it
InitLRU ==
    /\ setBit = 0
    /\ blockBit = 0
    /\ linesPerSet \in 1..3
    /\ ValidGeometry(setBit, blockBit, linesPerSet)
    /\ cache = InitCache(SetNum(setBit))
    /\ heap = InitHeap(SetNum(setBit))
    /\ freed = {}
    /\ myStats = ZeroStats
    /\ trace = <<>>
    /\ outcome = "none"
    /\ pc = "run"
    /\ quit = 0
    /\ verbose = 0
    /\ fileName = "trace"
    /\ printed = <<>>

NextLRU ==
    \/ \E op \in Ops, address \in 0..3, block \in Blocks, mallocOk \in BOOLEAN :
           Len(trace) < 5 /\ Access(op, address, block, mallocOk)
    \/ \E tailNextIsNull \in BOOLEAN : EndOfTrace(tailNextIsNull)

SpecLRU == InitLRU /\ [][NextLRU]_vars

\* ------------------------------------------------------------------------
\* What the claims speak of
\* ------------------------------------------------------------------------
\* the resident lines of set i in heap h, from the LRU end to the MRU end
RECURSIVE NodesFrom(_, _, _)
NodesFrom(h, n, tail) ==
    IF n = tail THEN <<>> ELSE <<n>> \o NodesFrom(h, h[n].next, tail)

SetNodes(h, i) == NodesFrom(h, h[cache[i].head].next, cache[i].tail)

SetTags(h, i) == LET nodes == SetNodes(h, i) IN [k \in 1..Len(nodes) |-> h[nodes[k]].tag]

SetDirty(h, i) == LET nodes == SetNodes(h, i) IN [k \in 1..Len(nodes) |-> h[nodes[k]].dirty]

Range(f) == {f[k] : k \in DOMAIN f}

Sets == DOMAIN cache

\* the tag and the set index of an address, as section 4.1 of the
\* specification defines them
TagOf(address) == address \div (2 ^ (setBit + blockBit))

IndexOf(address) == (address \div (2 ^ blockBit)) % (2 ^ setBit)

BlockBytes == 2 ^ blockBit

\* the positions of trace tr that touched tag t of set i
Touches(tr, i, t) ==
    {k \in 1..Len(tr) : IndexOf(tr[k].address) = i /\ TagOf(tr[k].address) = t}

\* the position of the most recent touch (0: never touched)
LastTouch(tr, i, t) ==
    IF Touches(tr, i, t) = {} THEN 0
    ELSE CHOOSE k \in Touches(tr, i, t) : \A j \in Touches(tr, i, t) : j <= k

\* this step is a call cacheOperation(op, address, block) that returned 0
Processed(op, address) ==
    /\ pc = "run"
    /\ trace' = Append(trace, [op |-> op, address |-> address])

MissOutcomes == {"ColdMiss", "Miss", "MissEviction"}

\* ------------------------------------------------------------------------
\* C1: in every reachable state every set holds at most linesPerSet
\* (associativity E) resident lines.
\* ------------------------------------------------------------------------
C1_AtMostAssociativity == \A i \in Sets : Len(SetNodes(heap, i)) <= linesPerSet

\* a set is full after an eviction made room in it
C1_Witness ==
    /\ outcome = "MissEviction"
    /\ \E i \in Sets : Len(SetNodes(heap, i)) = linesPerSet /\ linesPerSet >= 2

\* ------------------------------------------------------------------------
\* C2: in every reachable state the tags of the lines resident in one set
\* are pairwise distinct.
\* ------------------------------------------------------------------------
C2_DistinctTags ==
    \A i \in Sets : \A j, k \in 1..Len(SetNodes(heap, i)) :
        j # k => SetTags(heap, i)[j] # SetTags(heap, i)[k]

\* a set holds two lines and the access just made hit the second of them
C2_Witness ==
    /\ outcome = "Hit"
    /\ \E i \in Sets : Len(SetNodes(heap, i)) = 2 /\ myStats.hits >= 1 /\ myStats.misses >= 2

\* ------------------------------------------------------------------------
\* C3: a miss in a set that holds exactly linesPerSet lines removes the
\* resident line whose most recent touch (insertion or hit) is the oldest;
\* the accesses A,B,C,A,D (distinct tags, one set, E = 3) evict B and leave
\* C,A,D in LRU-to-MRU order.
\* ------------------------------------------------------------------------
\* this step processed one more record
Stepped == pc = "run" /\ Len(trace') = Len(trace) + 1

\* the record this step processed
Rec == trace'[Len(trace')]

C3_EvictsOldest ==
    (Stepped /\ outcome' \in MissOutcomes
        /\ Len(SetNodes(heap, IndexOf(Rec.address))) = linesPerSet)
    => LET i == IndexOf(Rec.address)
           pre == Range(SetTags(heap, i))
           removed == pre \ Range(SetTags(heap', i))
       IN  /\ Cardinality(removed) = 1
           /\ \A t \in removed :
                /\ LastTouch(trace, i, t) > 0
                /\ \A u \in pre : LastTouch(trace, i, t) <= LastTouch(trace, i, u)

\* the trace is A,B,C,A,D in one set, with A, B, C, D distinct tags
IsABCAD ==
    /\ Len(trace) = 5
    /\ \A k \in 1..5 : IndexOf(trace[k].address) = IndexOf(trace[1].address)
    /\ TagOf(trace[4].address) = TagOf(trace[1].address)
    /\ Cardinality({TagOf(trace[k].address) : k \in {1, 2, 3, 5}}) = 4

C3_ABCAD ==
    (IsABCAD /\ linesPerSet = 3)
    => /\ SetTags(heap, IndexOf(trace[1].address))
            = <<TagOf(trace[3].address), TagOf(trace[1].address), TagOf(trace[5].address)>>
       /\ myStats.evictions = 1

C3_LRU == [][C3_EvictsOldest]_vars /\ []C3_ABCAD

\* the run 0,1,2,0,3 on a three-line set has ended with 2,0,3 resident
C3_Witness ==
    /\ IsABCAD /\ linesPerSet = 3
    /\ outcome = "MissEviction"
    /\ SetTags(heap, 0) = <<2, 0, 3>>

\* ------------------------------------------------------------------------
\* C4: an access is a hit exactly when, before it, the addressed set holds
\* a line with the decoded tag; a hit adds 1 to hits and leaves misses,
\* evictions and the set's collection of tags as they were.
\* ------------------------------------------------------------------------
C4_Step ==
    /\ Stepped =>
        LET i == IndexOf(Rec.address)
            present == TagOf(Rec.address) \in Range(SetTags(heap, i))
        IN  /\ (outcome' = "Hit") <=> present
            /\ (myStats'.hits = myStats.hits + 1) <=> present
            /\ present =>
                 /\ myStats'.misses = myStats.misses
                 /\ myStats'.evictions = myStats.evictions
                 /\ Len(SetTags(heap', i)) = Len(SetTags(heap, i))
                 /\ Range(SetTags(heap', i)) = Range(SetTags(heap, i))
            /\ ~present => myStats'.hits = myStats.hits
    \* a call that returned 1: its tag was not resident and it is no hit
    /\ (pc = "run" /\ pc' = "exit1") =>
        /\ outcome' # "Hit"
        /\ myStats'.hits = myStats.hits
        /\ \A address \in Addresses :
             TagOf(address) \in Range(SetTags(heap, IndexOf(address)))
             => \A op \in Ops, block \in Blocks : ~Access(op, address, block, FALSE)

C4_HitIffPresent == [][C4_Step]_vars

\* a hit on a line that is not the first of its set
C4_Witness ==
    /\ outcome = "Hit"
    /\ myStats.hits = 1
    /\ \E i \in Sets : Len(SetNodes(heap, i)) = 2

\* ------------------------------------------------------------------------
\* C5: a miss adds 1 to misses and appends one line with the decoded tag at
\* the MRU end; exactly when the set held linesPerSet lines before, one line
\* is removed and evictions grows by 1; otherwise nothing is removed and
\* evictions is unchanged.
\* ------------------------------------------------------------------------
RemoveAt(q, k) == [j \in 1..(Len(q) - 1) |-> IF j < k THEN q[j] ELSE q[j + 1]]

C5_Step ==
    (Stepped /\ outcome' \in MissOutcomes)
    => LET i == IndexOf(Rec.address)
           pre == SetTags(heap, i)
           post == SetTags(heap', i)
       IN  /\ myStats'.misses = myStats.misses + 1
           /\ myStats'.hits = myStats.hits
           /\ IF Len(pre) = linesPerSet
              THEN /\ myStats'.evictions = myStats.evictions + 1
                   /\ \E k \in 1..Len(pre) : post = Append(RemoveAt(pre, k), TagOf(Rec.address))
              ELSE /\ myStats'.evictions = myStats.evictions
                   /\ post = Append(pre, TagOf(Rec.address))

C5_MissInsertsOne == [][C5_Step]_vars

\* a miss without eviction has been followed by a miss with eviction
C5_Witness ==
    /\ outcome = "MissEviction"
    /\ linesPerSet = 2
    /\ myStats.misses = 3
    /\ myStats.evictions = 1

\* ------------------------------------------------------------------------
\* C6: a Store that hits a clean line marks it dirty and adds blockBytes to
\* dirty_bytes; a Store that hits a dirty line leaves dirty_bytes unchanged.
\* ------------------------------------------------------------------------
\* the dirty flag of the line of set i that holds tag t
DirtyOf(h, i, t) ==
    LET k == CHOOSE j \in 1..Len(SetNodes(h, i)) : SetTags(h, i)[j] = t
    IN  SetDirty(h, i)[k]

C6_Step ==
    (Stepped /\ Rec.op = "S" /\ outcome' = "Hit")
    => LET i == IndexOf(Rec.address)
           t == TagOf(Rec.address)
       IN  /\ DirtyOf(heap', i, t) = 1
           /\ IF DirtyOf(heap, i, t) = 0
              THEN myStats'.dirty_bytes = myStats.dirty_bytes + BlockBytes
              ELSE myStats'.dirty_bytes = myStats.dirty_bytes

C6_StoreHitCountsOnce == [][C6_Step]_vars

\* a Load brought the line in clean, a Store hit it and marked it, and a
\* second Store hit it dirty
C6_Witness ==
    /\ Len(trace) = 3
    /\ trace[1].op = "L" /\ trace[2].op = "S" /\ trace[3].op = "S"
    /\ myStats.hits = 2
    /\ blockBit = 1
    /\ myStats.dirty_bytes = 2

\* ------------------------------------------------------------------------
\* C7: evicting a dirty line adds blockBytes to dirty_evictions and takes
\* blockBytes from dirty_bytes, evicting a clean line changes neither (the
\* line the same access inserts adds its own blockBytes when it is a Store),
\* and dirty_bytes never wraps below zero.
\* ------------------------------------------------------------------------
C7_Step ==
    (Stepped /\ outcome' = "MissEviction")
    => LET i == IndexOf(Rec.address)
           removed == Range(SetTags(heap, i)) \ Range(SetTags(heap', i))
           inserted == IF Rec.op = "S" THEN BlockBytes ELSE 0
       IN  \A t \in removed :
             LET evicted == IF DirtyOf(heap, i, t) = 1 THEN BlockBytes ELSE 0
             IN  /\ myStats'.dirty_evictions = myStats.dirty_evictions + evicted
                 /\ myStats'.dirty_bytes = myStats.dirty_bytes + inserted - evicted

C7_DirtyEviction == [][C7_Step]_vars /\ [](myStats.dirty_bytes >= 0)

\* a Load has evicted the only dirty line
C7_Witness ==
    /\ outcome = "MissEviction"
    /\ trace[Len(trace)].op = "L"
    /\ blockBit = 1
    /\ myStats.dirty_evictions = 2
    /\ myStats.dirty_bytes = 0

\* ------------------------------------------------------------------------
\* C8: in every reachable state dirty_bytes is blockBytes (2^blockBit) times
\* the number of resident lines whose dirty flag is set, over all sets.
\* ------------------------------------------------------------------------
DirtyLines(h, i) == Cardinality({k \in 1..Len(SetNodes(h, i)) : SetDirty(h, i)[k] = 1})

RECURSIVE SumDirtyLines(_, _)
SumDirtyLines(h, S) ==
    IF S = {} THEN 0
    ELSE LET i == CHOOSE j \in S : TRUE
         IN  DirtyLines(h, i) + SumDirtyLines(h, S \ {i})

C8_DirtyBytesIsResidentDirty ==
    myStats.dirty_bytes = BlockBytes * SumDirtyLines(heap, Sets)

\* one dirty line has been evicted and another dirty line is resident
C8_Witness ==
    /\ blockBit = 1
    /\ myStats.dirty_evictions = 2
    /\ myStats.dirty_bytes = 2
    /\ SumDirtyLines(heap, Sets) = 1

\* ------------------------------------------------------------------------
\* C9: the first access to a tag of a set is never a Hit.  As stated (it is
\* always a cold miss or a miss without eviction) the claim fails when the
\* set is full; as amended, it is a cold miss, a miss without eviction or,
\* exactly when the set holds linesPerSet lines, a miss with eviction.
\* ------------------------------------------------------------------------
\* the record this step processed is the first to touch its tag in its set
FirstTouch ==
    Stepped /\ Touches(trace, IndexOf(Rec.address), TagOf(Rec.address)) = {}

C9_OriginalStep == FirstTouch => outcome' \in {"ColdMiss", "Miss"}

C9_FirstAccessColdOrNoEviction == [][C9_OriginalStep]_vars

C9_AmendedStep ==
    FirstTouch
    => /\ outcome' # "Hit"
       /\ outcome' \in MissOutcomes
       /\ (outcome' = "MissEviction")
            <=> (Len(SetNodes(heap, IndexOf(Rec.address))) = linesPerSet)
       /\ myStats'.hits = myStats.hits

C9_FirstAccessNeverHit == [][C9_AmendedStep]_vars

\* the first access to a tag was a miss with eviction
C9_Witness ==
    /\ outcome = "MissEviction"
    /\ Len(trace) >= 2
    /\ Touches(trace, IndexOf(trace[Len(trace)].address), TagOf(trace[Len(trace)].address))
         = {Len(trace)}

\* ------------------------------------------------------------------------
\* C10: two sets of one line, one-byte blocks, trace L 0, L 1, L 0.  As
\* stated the run ends with 3 misses, 0 hits, 0 evictions; as amended,
\* addresses 0 and 1 go to different sets, the first two accesses are cold
\* misses and the third hits: 2 misses, 1 hit, 0 evictions.
\* ------------------------------------------------------------------------
IsL0L1L0 ==
    /\ setBit = 1 /\ linesPerSet = 1 /\ blockBit = 0
    /\ trace = <<[op |-> "L", address |-> 0], [op |-> "L", address |-> 1],
                 [op |-> "L", address |-> 0]>>
    /\ pc # "exit1"

C10_ThreeMisses ==
    IsL0L1L0 => myStats.misses = 3 /\ myStats.hits = 0 /\ myStats.evictions = 0

C10_TwoMissesOneHit ==
    IsL0L1L0
    => /\ IndexOf(0) # IndexOf(1)
       /\ SetTags(heap, 0) = <<0>> /\ SetTags(heap, 1) = <<0>>
       /\ outcome = "Hit"
       /\ myStats.misses = 2 /\ myStats.hits = 1 /\ myStats.evictions = 0
       /\ myStats.dirty_bytes = 0 /\ myStats.dirty_evictions = 0

\* the run of the three records has ended and main returned 0
C10_Witness == IsL0L1L0 /\ pc = "exit0"

\* ------------------------------------------------------------------------
\* One access on wider geometries (up to 8 sets of 8-byte blocks, one line
\* per set) over every address of eight bits, for the decoding of addresses
\* ------------------------------------------------------------------------
InitDecode ==
    /\ setBit \in 0..3
    /\ blockBit \in 0..3
    /\ linesPerSet = 1
    /\ ValidGeometry(setBit, blockBit, linesPerSet)
    /\ cache = InitCache(SetNum(setBit))
    /\ heap = InitHeap(SetNum(setBit))
    /\ freed = {}
    /\ myStats = ZeroStats
    /\ trace = <<>>
    /\ outcome = "none"
    /\ pc = "run"
    /\ quit = 0
    /\ verbose = 0
    /\ fileName = "trace"
    /\ printed = <<>>

NextDecode ==
    \/ \E op \in Ops, address \in 0..255, mallocOk \in BOOLEAN :
           Len(trace) < 1 /\ Access(op, address, 1, mallocOk)
    \/ \E tailNextIsNull \in BOOLEAN : EndOfTrace(tailNextIsNull)

SpecDecode == InitDecode /\ [][NextDecode]_vars

\* ------------------------------------------------------------------------
\* The program of Spec run with and without -v, on records of size 1 and 2
\* ------------------------------------------------------------------------
InitVerbose ==
    /\ setBit \in 0..1
    /\ blockBit \in 0..1
    /\ linesPerSet \in 1..2
    /\ ValidGeometry(setBit, blockBit, linesPerSet)
    /\ cache = InitCache(SetNum(setBit))
    /\ heap = InitHeap(SetNum(setBit))
    /\ freed = {}
    /\ myStats = ZeroStats
    /\ trace = <<>>
    /\ outcome = "none"
    /\ pc = "run"
    /\ quit = 0
    /\ verbose \in {0, 1}
    /\ fileName = "trace"
    /\ printed = <<>>

NextVerbose ==
    \/ \E op \in Ops, address \in 0..3, block \in 1..2, mallocOk \in BOOLEAN :
           Len(trace) < 3 /\ Access(op, address, block, mallocOk)
    \/ \E tailNextIsNull \in BOOLEAN : EndOfTrace(tailNextIsNull)

SpecVerbose == InitVerbose /\ [][NextVerbose]_vars

\* ------------------------------------------------------------------------
\* mainProcess on the text of the trace file.  A line is the sequence of the
\* characters fgets stores in lineBuffer, the newline included; the lines of
\* the model are shorter than LINELENGTH and at least two characters long,
\* and their numbers have few digits, so that strtoul never reports ERANGE.
\* ------------------------------------------------------------------------
\* the literal errno is compared with in mainProcess
EPERM == 1

\* the character at pointer k of str, the terminating NUL being ""
CharAt(str, k) == IF k \in 1..Len(str) THEN str[k] ELSE ""

IsSpace(c) == c \in {" ", "\t", "\n", "\r", "\f"}

LowerDigits == <<"0", "1", "2", "3", "4", "5", "6", "7", "8", "9", "a", "b", "c", "d", "e", "f">>

UpperDigits == <<"0", "1", "2", "3", "4", "5", "6", "7", "8", "9", "A", "B", "C", "D", "E", "F">>

\* the value of c as a digit of the base, -1 if it is none
DigitValue(c, base) ==
    IF \E k \in 1..base : LowerDigits[k] = c \/ UpperDigits[k] = c
    THEN (CHOOSE k \in 1..base : LowerDigits[k] = c \/ UpperDigits[k] = c) - 1
    ELSE -1

RECURSIVE SkipSpace(_, _)
SkipSpace(str, k) == IF IsSpace(CharAt(str, k)) THEN SkipSpace(str, k + 1) ELSE k

\* the digits from k on: their value and the pointer after the last of them
RECURSIVE ScanDigits(_, _, _, _)
ScanDigits(str, k, base, acc) ==
    IF DigitValue(CharAt(str, k), base) < 0
    THEN [value |-> acc, end |-> k]
    ELSE ScanDigits(str, k + 1, base, acc * base + DigitValue(CharAt(str, k), base))

\* strtoul(str + start - 1, &end, base): white space, a sign, 0x for base 16,
\* digits.  Without a digit it returns 0 and sets end to where it started; the
\* C library may then set errno to EINVAL (22) or leave it as it was (0).
Strtoul(str, start, base, einval) ==
    LET k1 == SkipSpace(str, start)
        k2 == IF CharAt(str, k1) \in {"+", "-"} THEN k1 + 1 ELSE k1
        k3 == IF /\ base = 16
                 /\ CharAt(str, k2) = "0"
                 /\ CharAt(str, k2 + 1) \in {"x", "X"}
                 /\ DigitValue(CharAt(str, k2 + 2), 16) >= 0
              THEN k2 + 2 ELSE k2
        d == ScanDigits(str, k3, base, 0)
    IN  IF d.end = k3
        THEN [value |-> 0, end |-> start, errno |-> IF einval THEN 22 ELSE 0]
        ELSE [value |-> IF CharAt(str, k1) = "-" THEN 0 - d.value ELSE d.value,
              end |-> d.end, errno |-> 0]

\* the body of the while loop up to the call of cacheOperation: ok is FALSE
\* where it returns 1
ParseLine(lineBuffer, einval) ==
    LET type == lineBuffer[1]
        a == Strtoul(lineBuffer, 3, 16, einval)
        b == Strtoul(lineBuffer, a.end + 1, 10, einval)
        none == [ok |-> FALSE, type |-> type, address |-> 0, block |-> 0]
    IN  IF type # "S" /\ type # "L" THEN none
        ELSE IF (a.value = 0 /\ a.errno = EPERM) \/ CharAt(lineBuffer, a.end) # "," THEN none
        ELSE IF b.value = 0 /\ b.errno = EPERM THEN none
        ELSE [ok |-> TRUE, type |-> type, address |-> a.value, block |-> b.value]

\* the turn of the loop with the printf("Wrong Input!\n") of the earlier
\* draft (line 224) on the lines it returns 1 for
ReadLineWrongInput(lineBuffer, mallocOk, einval) ==
    LET p == ParseLine(lineBuffer, einval)
    IN  IF p.ok
        THEN Access(p.type, p.address, p.block, mallocOk)
        ELSE /\ pc = "run"
             /\ pc' = "exit1"
             /\ printed' = Append(printed, [text |-> "Wrong Input!\n", args |-> <<>>])
             /\ UNCHANGED <<setBit, blockBit, linesPerSet, cache, heap, freed, myStats, trace,
                            outcome, quit, verbose, fileName>>

\* one turn of the while loop on the line fgets has read
ReadLine(lineBuffer, mallocOk, einval) ==
    LET p == ParseLine(lineBuffer, einval)
    IN  IF p.ok
        THEN Access(p.type, p.address, p.block, mallocOk)
        ELSE /\ pc = "run"
             /\ pc' = "exit1"
             /\ UNCHANGED <<setBit, blockBit, linesPerSet, cache, heap, freed, myStats, trace,
                            outcome, quit, verbose, fileName, printed>>

\* lines of the form "op address,size"
WellFormedLines ==
    {<<"L", " ", "0", ",", "1", "\n">>,
     <<"S", " ", "2", ",", "1", "\n">>,
     <<"L", " ", "3", ",", "2", "\n">>,
     <<"S", " ", "1", ",", "1", "\n">>}

WrongLetterLine == <<"M", " ", "0", ",", "1", "\n">>

MissingCommaLine == <<"L", " ", "2", " ", "1", "\n">>

NonNumericAddressLine == <<"L", " ", "z", "z", ",", "1", "\n">>

AbsentAddressLine == <<"L", " ", ",", "1", "\n">>

NonNumericSizeLine == <<"S", " ", "2", ",", "z", "z", "\n">>

AbsentSizeLine == <<"S", " ", "2", ",", "\n">>

\* a wrong letter, a missing comma, a non-numeric or absent address, a
\* non-numeric or absent size
MalformedLines ==
    {WrongLetterLine, MissingCommaLine, NonNumericAddressLine, AbsentAddressLine,
     NonNumericSizeLine, AbsentSizeLine}

InitReader ==
    /\ setBit \in 0..1
    /\ blockBit \in 0..1
    /\ linesPerSet \in 1..2
    /\ ValidGeometry(setBit, blockBit, linesPerSet)
    /\ cache = InitCache(SetNum(setBit))
    /\ heap = InitHeap(SetNum(setBit))
    /\ freed = {}
    /\ myStats = ZeroStats
    /\ trace = <<>>
    /\ outcome = "none"
    /\ pc = "run"
    /\ quit = 0
    /\ verbose \in {0, 1}
    /\ fileName = "trace"
    /\ printed = <<>>

NextReader ==
    \/ \E lineBuffer \in WellFormedLines \cup MalformedLines, mallocOk \in BOOLEAN, einval \in BOOLEAN :
           Len(trace) < 3 /\ ReadLine(lineBuffer, mallocOk, einval)
    \/ \E tailNextIsNull \in BOOLEAN : EndOfTrace(tailNextIsNull)

SpecReader == InitReader /\ [][NextReader]_vars

\* ------------------------------------------------------------------------
\* main from its first statement after getArguments.  pc is "start" before
\* the check of the arguments, "init" before initializeCache, "open" before
\* the fopen of mainProcess.
\* ------------------------------------------------------------------------
Line(text) == [text |-> text, args |-> <<>>]

\* printMessage
PrintMessage ==
    <<Line("Usage :  ./csim -ref [-v] -s <s> -E <E> -b <b> -t <trace>\n"),
      Line("./csim -h\n"),
      Line("    -h    Print this help message and exit\n"),
      Line("    -v    Verbose mode: report effects of each memory operation\n"),
      Line("    -s <s>    Number of set index bits (there are 2**s sets\n"),
      Line("    -b <b>    Number of block bits (there are 2**b blocks)\n"),
      Line("    -E <E>    Number of lines per set (associativity)\n"),
      Line("    -t <trace >    File name of the memory trace to process\n"),
      Line("The -s, -b, -E, and -t options must be supplied for all simulations.\n")>>

\* the globals as getArguments leaves them: an unknown option sets quit and
\* prints the usage, -h prints the usage, -v sets verbose, -t fills fileName
InitMain ==
    /\ quit \in {0, 1}
    /\ verbose \in {0, 1}
    /\ setBit \in {-1, 0, 1, 31, 32, 33, IntMax}
    /\ blockBit \in {-1, 0, 1, 64}
    /\ linesPerSet \in 0..2
    /\ fileName \in {"", "trace"}
    /\ printed \in {<<>>, PrintMessage}
    /\ quit = 1 => printed = PrintMessage
    /\ cache = <<>>
    /\ heap = <<>>
    /\ freed = {}
    /\ myStats = ZeroStats
    /\ trace = <<>>
    /\ outcome = "none"
    /\ pc = "start"

\* the condition of the if in main
ArgumentsRejected ==
    quit = 1 \/ ~ValidGeometry(setBit, blockBit, linesPerSet) \/ fileName = ""

\* main: the check of the arguments.  Where setBit + blockBit overflows the
\* behaviour is undefined: the sum wraps to a negative int, which is below
\* 64 (wraps), or the comparison is compiled as one of the exact sum.
CheckArguments(wraps) ==
    /\ pc = "start"
    /\ IF ArgumentsRejected \/ (~wraps /\ Overflows(setBit, blockBit))
       THEN /\ printed' = printed \o <<Line("Invalid Argument!\n")>> \o PrintMessage
            /\ pc' = "exit1"
       ELSE /\ printed' = printed
            /\ pc' = "init"
    /\ UNCHANGED <<setBit, blockBit, linesPerSet, cache, heap, freed, myStats, trace, outcome,
                   quit, verbose, fileName>>

\* initializeCache(setNum), setNum being a value of 1 << setBit.  arrayOk:
\* the malloc of the array succeeds, which it cannot for the 2^64 - 2^31
\* sets of a negative int; failSet: the set whose head or tail malloc fails
\* first, -1 if none does; headOk, tailOk: which of the two mallocs of that
\* set succeed.  The array pointer is not tested: where it is NULL the first
\* cache[i].head = ... stores through it and the run is lost.  With setNum 0
\* the loop is not entered.
InitializeCache(setNum, arrayOk, failSet, headOk, tailOk) ==
    /\ pc = "init"
    /\ setNum \in SetNums(setBit)
    /\ setNum < 0 => ~arrayOk
    /\ IF ~arrayOk /\ setNum # 0
       THEN /\ pc' = "crash"
            /\ UNCHANGED <<cache, heap>>
       ELSE IF failSet = -1
       THEN /\ cache' = InitCache(setNum)
            /\ heap' = InitHeap(setNum)
            /\ pc' = "open"
       ELSE /\ failSet \in 0..(setNum - 1)
            /\ ~(headOk /\ tailOk)
            /\ LET head == IF headOk THEN 2 * failSet + 1 ELSE NULL
                   tail == IF tailOk THEN 2 * failSet + (IF headOk THEN 2 ELSE 1) ELSE NULL
               IN  /\ cache' = [i \in 0..failSet |->
                                   IF i < failSet THEN InitCache(setNum)[i]
                                   ELSE [head |-> head, tail |-> tail]]
                   /\ heap' = InitHeap(failSet)
                                \o (IF headOk \/ tailOk THEN <<FreshNode>> ELSE <<>>)
            /\ pc' = "exit1"
    /\ UNCHANGED <<setBit, blockBit, linesPerSet, freed, myStats, trace, outcome,
                   quit, verbose, fileName, printed>>

\* mainProcess: fopen(afile, "r")
OpenTrace(fopenOk) ==
    /\ pc = "open"
    /\ IF fopenOk
       THEN /\ printed' = printed
            /\ pc' = "run"
       ELSE /\ printed' = printed \o <<Line("Failed open trace file!\n")>>
            /\ pc' = "exit1"
    /\ UNCHANGED <<setBit, blockBit, linesPerSet, cache, heap, freed, myStats, trace, outcome,
                   quit, verbose, fileName>>

NextMain ==
    \/ \E wraps \in BOOLEAN : CheckArguments(wraps)
    \/ \E setNum \in {(0 - IntMax) - 1, 0, 1, 2}, arrayOk \in BOOLEAN, failSet \in -1..1,
          headOk \in BOOLEAN, tailOk \in BOOLEAN :
           InitializeCache(setNum, arrayOk, failSet, headOk, tailOk)
    \/ \E fopenOk \in BOOLEAN : OpenTrace(fopenOk)
    \/ \E lineBuffer \in WellFormedLines \cup MalformedLines, mallocOk \in BOOLEAN, einval \in BOOLEAN :
           Len(trace) < 2 /\ ReadLine(lineBuffer, mallocOk, einval)
    \/ \E tailNextIsNull \in BOOLEAN : EndOfTrace(tailNextIsNull)

SpecMain == InitMain /\ [][NextMain]_vars

\* ------------------------------------------------------------------------
\* C11: one set of one line, one-byte blocks, trace L 0, L 1, L 0: the first
\* access is a cold miss, the second evicts tag 0, the third evicts tag 1;
\* the run ends with 0 hits, 3 misses, 2 evictions.
\* ------------------------------------------------------------------------
OneLineOneSet == setBit = 0 /\ linesPerSet = 1 /\ blockBit = 0 /\ pc # "exit1"

L0 == [op |-> "L", address |-> 0]

L1 == [op |-> "L", address |-> 1]

C11_EvictsTwice ==
    OneLineOneSet
    => /\ trace = <<L0>> =>
            /\ outcome = "ColdMiss" /\ SetTags(heap, 0) = <<0>>
            /\ myStats.misses = 1 /\ myStats.evictions = 0
       /\ trace = <<L0, L1>> =>
            /\ outcome = "MissEviction" /\ SetTags(heap, 0) = <<1>>
            /\ myStats.misses = 2 /\ myStats.evictions = 1
       /\ trace = <<L0, L1, L0>> =>
            /\ outcome = "MissEviction" /\ SetTags(heap, 0) = <<0>>
            /\ myStats.hits = 0 /\ myStats.misses = 3 /\ myStats.evictions = 2

\* the run of the three records has ended and main returned 0
C11_Witness == OneLineOneSet /\ trace = <<L0, L1, L0>> /\ pc = "exit0"

\* ------------------------------------------------------------------------
\* C12: on an empty cache, a Store followed by a Load of the same address is
\* one miss and then one hit, after which dirty_bytes is blockBytes and
\* dirty_evictions is 0, in every geometry.
\* ------------------------------------------------------------------------
C12_StoreThenLoad ==
    \A address \in Addresses :
        pc # "exit1"
        => /\ trace = <<[op |-> "S", address |-> address]>> =>
                /\ myStats.misses = 1 /\ myStats.hits = 0
                /\ myStats.dirty_bytes = BlockBytes
           /\ trace = <<[op |-> "S", address |-> address], [op |-> "L", address |-> address]>> =>
                /\ outcome = "Hit"
                /\ myStats.misses = 1 /\ myStats.hits = 1 /\ myStats.evictions = 0
                /\ myStats.dirty_bytes = BlockBytes
                /\ myStats.dirty_evictions = 0
                /\ DirtyOf(heap, IndexOf(address), TagOf(address)) = 1

\* a Store and a Load of address 3 on two sets of two-byte blocks
C12_Witness ==
    /\ trace = <<[op |-> "S", address |-> 3], [op |-> "L", address |-> 3]>>
    /\ setBit = 1 /\ blockBit = 1
    /\ myStats.dirty_bytes = 2
    /\ pc = "run"

\* ------------------------------------------------------------------------
\* C14: no step decreases hits, misses, evictions or dirty_evictions, and
\* dirty_bytes decreases only in a step that evicts a dirty line.
\* ------------------------------------------------------------------------
\* this step evicted a line whose dirty flag was set
EvictsDirtyLine ==
    /\ Stepped
    /\ outcome' = "MissEviction"
    /\ LET i == IndexOf(Rec.address)
       IN  \E t \in Range(SetTags(heap, i)) \ Range(SetTags(heap', i)) :
               DirtyOf(heap, i, t) = 1

C14_Step ==
    /\ myStats'.hits >= myStats.hits
    /\ myStats'.misses >= myStats.misses
    /\ myStats'.evictions >= myStats.evictions
    /\ myStats'.dirty_evictions >= myStats.dirty_evictions
    /\ myStats'.dirty_bytes < myStats.dirty_bytes => EvictsDirtyLine

C14_CountersMonotone == [][C14_Step]_vars

\* a Load has evicted a dirty line that had been hit once
C14_Witness ==
    /\ outcome = "MissEviction"
    /\ myStats.hits = 1
    /\ myStats.dirty_evictions = BlockBytes
    /\ myStats.dirty_bytes = 0

\* ------------------------------------------------------------------------
\* C15: an access whose address has set index i changes set i and the
\* statistics only: the nodes, order, tags and dirty flags of every other
\* set are as before.
\* ------------------------------------------------------------------------
\* the sentinels and lines of set j, with every field, are unchanged
SetUntouched(j) ==
    /\ SetNodes(heap', j) = SetNodes(heap, j)
    /\ \A n \in Chain(heap, cache[j].head, cache[j].tail) : heap'[n] = heap[n]

C15_Step ==
    /\ Stepped => \A j \in Sets \ {IndexOf(Rec.address)} : SetUntouched(j)
    /\ (pc = "run" /\ pc' = "exit1") => \A j \in Sets : SetUntouched(j)
    /\ cache' = cache

C15_OtherSetsUnchanged == [][C15_Step]_vars

\* both sets hold a line and the last access went to set 1
C15_Witness ==
    /\ setBit = 1
    /\ Len(SetNodes(heap, 0)) >= 1
    /\ Len(SetNodes(heap, 1)) >= 1
    /\ Len(trace) >= 2
    /\ IndexOf(trace[Len(trace)].address) = 1

\* ------------------------------------------------------------------------
\* C13: the decoder yields tag = address >> (setBit + blockBit) and set index
\* = (address >> blockBit) & (2^setBit - 1); two addresses decode to the same
\* (tag, set index) pair iff they differ only in their low blockBit bits; with
\* setBit = 0 every address maps to set 0.
\* ------------------------------------------------------------------------
\* bit k of a
Bit(a, k) == (a \div (2 ^ k)) % 2

\* a1 and a2 agree on every bit from blockBit upwards
DifferOnlyInOffset(a1, a2) == \A k \in blockBit..7 : Bit(a1, k) = Bit(a2, k)

\* the line the access of address a has left at the MRU end of its set
DecodedInto(a) ==
    LET i == (a \div (2 ^ blockBit)) % (2 ^ setBit)
        tags == SetTags(heap, i)
    IN  /\ tags # <<>>
        /\ tags[Len(tags)] = a \div (2 ^ (setBit + blockBit))

C13_Decoder ==
    (Len(trace) = 1 /\ pc # "exit1")
    => LET a == trace[1].address
       IN  /\ ThisTag(a) = a \div (2 ^ (setBit + blockBit))
           /\ ThisSetNum(a) = (a \div (2 ^ blockBit)) % (2 ^ setBit)
           /\ ThisSetNum(a) \in 0..(2 ^ setBit - 1)
           /\ DecodedInto(a)
           /\ setBit = 0 => ThisSetNum(a) = 0
           /\ \A a2 \in 0..255 :
                  (ThisTag(a2) = ThisTag(a) /\ ThisSetNum(a2) = ThisSetNum(a))
                  <=> DifferOnlyInOffset(a, a2)

\* address 213 = 110 101 01 on 8 sets of 4-byte blocks: tag 6 in set 5
C13_Witness ==
    /\ setBit = 3 /\ blockBit = 2
    /\ Len(trace) = 1 /\ trace[1].address = 213
    /\ SetTags(heap, 5) = <<6>>
    /\ pc = "run"

\* ------------------------------------------------------------------------
\* C16: the verbose flag does not affect the simulation.  Stated step by
\* step: the lines of every set and the statistics after a step are the
\* value of Simulated, which reads the geometry, the lines and the
\* statistics before the step and the record, and neither verbose nor
\* printed; two runs on one geometry and one trace start from the same empty
\* cache and so agree after every record and at the end, whatever their flags.
\* ------------------------------------------------------------------------
\* the lines of set i from LRU to MRU
Lines(h, i) ==
    LET nodes == SetNodes(h, i)
    IN  [k \in 1..Len(nodes) |-> [tag |-> h[nodes[k]].tag, dirty |-> h[nodes[k]].dirty]]

\* the lines of the addressed set and the statistics after the access
Simulated(op, address) ==
    LET ls == Lines(heap, IndexOf(address))
        t == TagOf(address)
        stored == IF op = "S" THEN 1 ELSE 0
        at == {k \in 1..Len(ls) : ls[k].tag = t}
    IN  IF at # {}
        THEN LET k == CHOOSE j \in at : TRUE
                 marks == op = "S" /\ ls[k].dirty = 0
             IN  [lines |-> RemoveAt(ls, k) \o <<[tag |-> t, dirty |-> IF marks THEN 1 ELSE ls[k].dirty]>>,
                  stats |-> [myStats EXCEPT !.hits = @ + 1,
                                            !.dirty_bytes = @ + (IF marks THEN BlockBytes ELSE 0)]]
        ELSE LET full == Len(ls) = linesPerSet
                 lost == IF full /\ ls[1].dirty = 1 THEN BlockBytes ELSE 0
             IN  [lines |-> (IF full THEN Tail(ls) ELSE ls) \o <<[tag |-> t, dirty |-> stored]>>,
                  stats |-> [myStats EXCEPT !.misses = @ + 1,
                                            !.evictions = @ + (IF full THEN 1 ELSE 0),
                                            !.dirty_bytes = @ + stored * BlockBytes - lost,
                                            !.dirty_evictions = @ + lost]]

C16_Step ==
    /\ Stepped =>
           /\ Lines(heap', IndexOf(Rec.address)) = Simulated(Rec.op, Rec.address).lines
           /\ myStats' = Simulated(Rec.op, Rec.address).stats
           /\ \A j \in Sets \ {IndexOf(Rec.address)} : Lines(heap', j) = Lines(heap, j)
    /\ (pc = "run" /\ pc' = "exit1") =>
           /\ \A j \in Sets : Lines(heap', j) = Lines(heap, j)
           /\ myStats' = [myStats EXCEPT !.misses = @ + 1]
    /\ (pc = "run" /\ pc' \in {"exit0", "crash"}) =>
           /\ \A j \in Sets : Lines(heap', j) = Lines(heap, j)
           /\ myStats' = myStats
    /\ verbose' = verbose
    /\ verbose = 0 => printed' = printed
    /\ (verbose = 1 /\ Stepped) => Len(printed') = Len(printed) + 2

C16_VerboseDoesNotInterfere == [][C16_Step]_vars

\* a verbose run has reported three records, the last one an eviction
C16_Witness ==
    /\ verbose = 1
    /\ Len(trace) = 3
    /\ Len(printed) = 6
    /\ printed[6].text = "A Cache Miss and Eviction\n"
    /\ myStats.evictions = 1

\* ------------------------------------------------------------------------
\* C17: the size of a record influences neither the classification nor the
\* cache nor the statistics: the step taken on a record is the step
\* cacheOperation takes on the same operation and address with any size, so
\* traces that differ in sizes only run through the same states.
\* ------------------------------------------------------------------------
C17_Step ==
    /\ Stepped =>
           \A block \in 1..2 :
               LET r == CacheOperation(Rec.op, Rec.address, block, TRUE)
               IN  /\ r.ret = 0
                   /\ r.outcome = outcome'
                   /\ r.heap = heap'
                   /\ r.freed = freed'
                   /\ r.stats = myStats'
    /\ (pc = "run" /\ pc' = "exit1") =>
           \A op \in Ops, address \in 0..3, block \in 1..2 :
               CacheOperation(op, address, block, FALSE) = CacheOperation(op, address, 1, FALSE)

C17_SizeDoesNotInterfere == [][C17_Step]_vars

\* a verbose run has echoed S 2,1 and L 2,2, and the Load of two bytes hit
C17_Witness ==
    /\ verbose = 1
    /\ Len(printed) = 4
    /\ printed[1].args = <<"S", 2, 1>>
    /\ printed[3].args = <<"L", 2, 2>>
    /\ outcome = "Hit"
    /\ myStats.hits = 1

\* ------------------------------------------------------------------------
\* C18: a line with a wrong operation letter, a missing comma, or a
\* non-numeric or absent address or size is rejected as fatal for the run,
\* and cacheOperation is not called for it: the step of such a line ends the
\* run with status 1 and leaves statistics, cache and trace as they were.
\* ------------------------------------------------------------------------
\* this step is the turn of the loop on lineBuffer
IsReadOf(lineBuffer) == \E mallocOk \in BOOLEAN, einval \in BOOLEAN : ReadLine(lineBuffer, mallocOk, einval)

Rejected ==
    /\ pc' = "exit1"
    /\ myStats' = myStats
    /\ heap' = heap
    /\ trace' = trace

C18_Step == \A lineBuffer \in MalformedLines : IsReadOf(lineBuffer) => Rejected

C18_MalformedRejected == [][C18_Step]_vars

\* ------------------------------------------------------------------------
\* C19: the exit status is 0 iff every record of the trace was processed;
\* rejected arguments, a trace file that cannot be opened, a malformed line
\* and a failed allocation each end the process with a non-zero status; a
\* trace file that cannot be opened is found before any record is processed.
\* ------------------------------------------------------------------------
\* this step is the end of the trace: fgets returned NULL with the run intact
ReachesEndOfTrace == pc = "run" /\ pc' \notin {"run", "exit1"}

\* this step is a failed allocation of initializeCache or of cacheOperation
AllocationFails ==
    \/ pc = "init" /\ pc' # "open"
    \/ pc = "run" /\ outcome' = "AllocFail" /\ myStats' # myStats

C19_Step ==
    /\ pc' = "exit0" => ReachesEndOfTrace
    /\ ReachesEndOfTrace => pc' = "exit0"
    /\ (pc = "start" /\ ArgumentsRejected) => pc' = "exit1"
    /\ (pc = "open" /\ pc' # "run") =>
           pc' = "exit1" /\ trace = <<>> /\ myStats = ZeroStats
    /\ \A lineBuffer \in MalformedLines : IsReadOf(lineBuffer) => pc' = "exit1"
    /\ AllocationFails => pc' = "exit1"

C19_ExitStatus == [][C19_Step]_vars

\* ------------------------------------------------------------------------
\* C20: where the allocation of the set array, of a head or tail sentinel or
\* of a line fails, the run ends with status 1: the allocation is not tried
\* again and the null pointer is not dereferenced.
\* ------------------------------------------------------------------------
C20_Step ==
    AllocationFails
    => /\ pc' = "exit1"
       /\ trace' = trace
       /\ \A i \in DOMAIN cache : cache'[i] = cache[i]

C20_AllocationFailureAborts == [][C20_Step]_vars

\* ------------------------------------------------------------------------
\* C21: a geometry is accepted exactly when setBit >= 0, blockBit >= 0,
\* linesPerSet > 0 and setBit + blockBit < 64; for a rejected geometry the
\* cache is never constructed, no record is processed, and the process
\* returns 1 after the usage message.
\* ------------------------------------------------------------------------
\* the geometry the arguments give is one of the claim; the sum is the sum
\* of the two numbers, which is above 64 where the int sum overflows
GeometryOfClaim ==
    /\ setBit >= 0
    /\ blockBit >= 0
    /\ linesPerSet > 0
    /\ ~Overflows(setBit, blockBit)
    /\ setBit + blockBit < 64

\* nothing was constructed and nothing processed
Untouched(c, h, t, st) == c = <<>> /\ h = <<>> /\ t = <<>> /\ st = ZeroStats

C21_Step ==
    pc = "start"
    => /\ (quit = 0 /\ fileName # "") => (pc' = "init" <=> GeometryOfClaim)
       /\ ~GeometryOfClaim =>
              /\ pc' = "exit1"
              /\ printed' = printed \o <<Line("Invalid Argument!\n")>> \o PrintMessage
              /\ Untouched(cache', heap', trace', myStats')

C21_NeverConstructed ==
    ~GeometryOfClaim => (pc \in {"start", "exit1"} /\ Untouched(cache, heap, trace, myStats))

C21_GeometryCheck == [][C21_Step]_vars /\ []C21_NeverConstructed

\* ------------------------------------------------------------------------
\* C22: at the end of a successful run cleanUp frees every resident line and
\* both sentinels of every set exactly once, and its walk over the list of a
\* set stops at the tail sentinel without reading a pointer field that was
\* never initialised.
\* ------------------------------------------------------------------------
\* the nodes whose next field the walk of cleanUp reads: temp = curr->next is
\* executed for every node it frees, the tail sentinel included
CleanUpReadsNextOf == UNION {Chain(heap, cache[i].head, cache[i].tail) : i \in DOMAIN cache}

C22_Step ==
    ReachesEndOfTrace
    => /\ pc' = "exit0"
       /\ freed' = freed \cup CleanUpReadsNextOf
       /\ freed \cap CleanUpReadsNextOf = {}
       /\ \A i \in DOMAIN cache :
              {cache[i].head, cache[i].tail} \cup Range(SetNodes(heap, i)) \subseteq freed'
       /\ \A n \in CleanUpReadsNextOf : heap[n].next # Uninit

C22_TeardownStopsAtTail == [][C22_Step]_vars

\* ------------------------------------------------------------------------
\* C23: on every fatal error the program emits exactly one diagnostic
\* message naming the category of the error before it exits with non-zero
\* status.
\* As the code has it: rejected arguments print "Invalid Argument!" (and the
\* usage) and a trace file that cannot be opened prints "Failed open trace
\* file!", each once; a rejected trace line and a failed allocation that is
\* detected return 1 without any diagnostic.
\* ------------------------------------------------------------------------
\* what cacheOperation reports of an access when verbose
Reports == UNION {Range(Report(b)) : b \in {"ColdMiss", "Hit", "Miss", "MissEviction"}}

\* a printed entry that is neither usage text nor the echo or report of an access
IsDiagnostic(e) == e.args = <<>> /\ e \notin Range(PrintMessage) /\ e \notin Reports

Diagnostics(p) == SelectSeq(p, IsDiagnostic)

\* this step ends the run with status 1
Fails == pc # "exit1" /\ pc' = "exit1"

C23_OriginalStep == Fails => Len(Diagnostics(printed')) = 1

C23_OneDiagnosticPerError == [][C23_OriginalStep]_vars

C23_AmendedStep ==
    Fails
    => Diagnostics(printed') =
           Diagnostics(printed) \o
               (CASE pc = "start" -> <<Line("Invalid Argument!\n")>>
                  [] pc = "open" -> <<Line("Failed open trace file!\n")>>
                  [] OTHER -> <<>>)

C23_DiagnosticsOfTheCode ==
    [][C23_AmendedStep]_vars /\ [](Len(Diagnostics(printed)) <= 1)

\* the cache was built and the file opened, and the first line read was
\* rejected: the run has ended with status 1 and nothing printed
C23_Witness ==
    /\ pc = "exit1"
    /\ printed = <<>>
    /\ outcome = "none"
    /\ setBit \in {0, 1}
    /\ cache = InitCache(SetNum(setBit))
    /\ heap = InitHeap(SetNum(setBit))

\* ------------------------------------------------------------------------
\* C24: on a hit the matched line becomes the last (MRU) line of its set,
\* its tag unchanged and, on a Load, its dirty flag unchanged; the other
\* lines keep their relative order, and the set keeps its length.
\* ------------------------------------------------------------------------
C24_Step ==
    (Stepped /\ outcome' = "Hit")
    => LET i == IndexOf(Rec.address)
           pre == SetNodes(heap, i)
           post == SetNodes(heap', i)
           k == CHOOSE j \in 1..Len(pre) : heap[pre[j]].tag = TagOf(Rec.address)
       IN  /\ Len(post) = Len(pre)
           /\ post[Len(post)] = pre[k]
           /\ post = RemoveAt(pre, k) \o <<pre[k]>>
           /\ heap'[pre[k]].tag = heap[pre[k]].tag
           /\ Rec.op = "L" => heap'[pre[k]].dirty = heap[pre[k]].dirty
           /\ \A j \in 1..Len(pre) :
                  j # k => /\ heap'[pre[j]].tag = heap[pre[j]].tag
                           /\ heap'[pre[j]].dirty = heap[pre[j]].dirty

C24_HitMovesToMRU == [][C24_Step]_vars

\* three lines 0, 1, 2 were stored and the Load of the oldest hit: it is now
\* behind 1 and 2, still dirty
C24_Witness ==
    /\ linesPerSet = 3
    /\ Len(trace) = 4
    /\ trace[4] = [op |-> "L", address |-> 0]
    /\ outcome = "Hit"
    /\ SetTags(heap, 0) = <<1, 2, 0>>
    /\ SetDirty(heap, 0) = <<1, 1, 1>>

\* ------------------------------------------------------------------------
\* C25: sets are independent: two accesses to different sets, performed in
\* either order from any state, leave the same lines in every set and the
\* same statistics.  Stated on the step of the first access and the call of
\* the second before and after it: the second access has the same branch,
\* leaves the same lines in its set and adds the same amounts to the
\* counters whether the first has been performed or not, and neither
\* changes the set of the other; the two orders then end in the lines each
\* access leaves in its own set and in the sum of the two additions.
\* ------------------------------------------------------------------------
StatsAdded(after, before) ==
    [f \in {"hits", "misses", "evictions", "dirty_bytes", "dirty_evictions"} |-> after[f] - before[f]]

C25_Step ==
    Stepped
    => \A op2 \in Ops, a2 \in 0..3 :
           IndexOf(a2) # IndexOf(Rec.address)
           => LET i1 == IndexOf(Rec.address)
                  i2 == IndexOf(a2)
                  before == CacheOperation(op2, a2, 1, TRUE)
                  after == CacheOperation(op2, a2, 1, TRUE)'
              IN  /\ after.outcome = before.outcome
                  /\ Lines(after.heap, i2) = Lines(before.heap, i2)
                  /\ StatsAdded(after.stats, myStats') = StatsAdded(before.stats, myStats)
                  /\ Lines(after.heap, i1) = Lines(heap', i1)
                  /\ Lines(before.heap, i1) = Lines(heap, i1)

C25_SetsIndependent == [][C25_Step]_vars

\* L 0 and S 2 went to set 0 and L 3, between them, to set 1
C25_Witness ==
    /\ setBit = 1 /\ blockBit = 0 /\ linesPerSet = 2
    /\ trace = <<[op |-> "L", address |-> 0], [op |-> "L", address |-> 3], [op |-> "S", address |-> 2]>>
    /\ SetTags(heap, 0) = <<0, 1>>
    /\ SetTags(heap, 1) = <<1>>
    /\ myStats.misses = 3

\* ------------------------------------------------------------------------
\* C26: after n successfully processed records, hits + misses = n.
\* ------------------------------------------------------------------------
\* trace holds the records cacheOperation returned 0 for; the call that
\* returns 1 has counted its miss before the malloc that failed
C26_HitsPlusMisses ==
    /\ pc # "exit1" => myStats.hits + myStats.misses = Len(trace)
    /\ pc = "exit1" => myStats.hits + myStats.misses = Len(trace) + 1

\* three records processed, one miss and two hits, and main has returned 0
C26_Witness ==
    /\ Len(trace) = 3
    /\ myStats.misses = 1
    /\ myStats.hits = 2
    /\ pc = "exit0"

\* ------------------------------------------------------------------------
\* C27: in every reachable state the number of resident lines over all sets
\* is misses - evictions, so that evictions <= misses, and no eviction is
\* counted while every set is below its capacity.
\* As the code has it: that holds while no allocation of a line has failed;
\* the call whose malloc fails has counted its miss and inserted no line,
\* and the run ends with misses - evictions one above the resident lines.
\* ------------------------------------------------------------------------
RECURSIVE SumLen(_, _)
SumLen(h, S) ==
    IF S = {} THEN 0
    ELSE LET i == CHOOSE j \in S : TRUE
         IN  Len(SetNodes(h, i)) + SumLen(h, S \ {i})

ResidentLines == SumLen(heap, Sets)

C27_ResidentIsMissesMinusEvictions == ResidentLines = myStats.misses - myStats.evictions

C27_Resident ==
    /\ pc # "exit1" => ResidentLines = myStats.misses - myStats.evictions
    /\ pc = "exit1" => ResidentLines = myStats.misses - myStats.evictions - 1
    /\ myStats.evictions <= myStats.misses

C27_Step ==
    myStats'.evictions # myStats.evictions
    => /\ Stepped
       /\ Len(SetNodes(heap, IndexOf(Rec.address))) = linesPerSet

C27_ResidentUnlessAllocFail == [][C27_Step]_vars /\ []C27_Resident

\* after two misses and one eviction in a set of one line, the malloc of a
\* third miss has failed
C27_Witness ==
    /\ linesPerSet = 1
    /\ setBit = 0
    /\ outcome = "AllocFail"
    /\ myStats.misses = 3
    /\ myStats.evictions = 1
    /\ ResidentLines = 1
    /\ pc = "exit1"

\* ------------------------------------------------------------------------
\* C28: for every accepted geometry and every address the decoded set index
\* is below the number of sets initializeCache has allocated, that number
\* being the int 1 << setBit and the mask of the index the long
\* (1L << setBit) - 1L.
\* ------------------------------------------------------------------------
\* the number of elements of the array cache points to
SetsAllocated == Cardinality(DOMAIN cache)

C28_IndexBelowSetNum ==
    /\ pc = "run" => \A address \in 0..3 : ThisSetNum(address) < SetsAllocated
    /\ outcome # "OutOfBounds"

\* ------------------------------------------------------------------------
\* C29: after initialisation and after every access the list of each set is
\* well formed: following next from the head sentinel reaches the tail
\* sentinel after exactly the resident lines, and n->next->prev = n for
\* every node before the tail, so that the size loop and the tag loop end.
\* ------------------------------------------------------------------------
\* following next from n reaches tail within the given number of steps
RECURSIVE ReachesTail(_, _, _, _)
ReachesTail(h, n, tail, steps) ==
    IF n = tail THEN TRUE
    ELSE IF steps = 0 \/ n \notin DOMAIN h THEN FALSE
    ELSE ReachesTail(h, h[n].next, tail, steps - 1)

\* the Nodes malloc'ed for lines and not freed by an eviction
LinesAllocated == {n \in DOMAIN heap : n > 2 * SetsAllocated /\ n \notin freed}

WellFormed(i) ==
    /\ ReachesTail(heap, cache[i].head, cache[i].tail, Len(heap))
    /\ \A n \in Chain(heap, cache[i].head, cache[i].tail) \ {cache[i].tail} :
           heap[heap[n].next].prev = n
    /\ Range(SetNodes(heap, i)) \subseteq LinesAllocated

C29_ListsWellFormed ==
    pc # "exit0"
    => /\ \A i \in Sets : WellFormed(i)
       /\ \A i, j \in Sets : i # j => Range(SetNodes(heap, i)) \cap Range(SetNodes(heap, j)) = {}
       /\ SumLen(heap, Sets) = Cardinality(LinesAllocated)

\* two sets, one with two lines after a hit, one with one line after an eviction
C29_Witness ==
    /\ setBit = 1
    /\ Len(SetNodes(heap, 0)) + Len(SetNodes(heap, 1)) = 2
    /\ Len(SetNodes(heap, 0)) = 1
    /\ myStats.evictions = 1
    /\ pc = "run"

\* ------------------------------------------------------------------------
\* C30: a line node freed by an eviction is unlinked before it is freed, is
\* never again reachable from the list of any set, is never read and is
\* never freed a second time, the final teardown included, over any sequence
\* of accesses.
\* ------------------------------------------------------------------------
\* the nodes a walk of the lists can read: the sentinels and the lines between
Listed(h) == UNION {Chain(h, cache[i].head, cache[i].tail) : i \in DOMAIN cache}

\* the nodes the pointers of a listed node lead to
PointedAt(h) == {h[n].next : n \in Listed(h)} \cup {h[n].prev : n \in Listed(h)}

\* the nodes free() was called on by the step
NewlyFreed == freed' \ freed

C30_FreedUnreachable ==
    pc # "exit0"
    => /\ freed \cap Listed(heap) = {}
       /\ freed \cap PointedAt(heap) = {}

C30_Step ==
    /\ (Stepped /\ outcome' = "MissEviction")
       => /\ NewlyFreed = {ToDelete(heap, IndexOf(Rec.address))}
          /\ NewlyFreed \subseteq Range(SetNodes(heap, IndexOf(Rec.address)))
          /\ NewlyFreed \cap Listed(heap') = {}
          /\ NewlyFreed \cap PointedAt(heap') = {}
    /\ (pc' # "exit0" /\ ~(Stepped /\ outcome' = "MissEviction")) => NewlyFreed = {}
    /\ \A n \in freed : n \in DOMAIN heap' /\ heap'[n] = heap[n]
    /\ ReachesEndOfTrace => freed \cap CleanUpReadsNextOf = {}

C30_EvictedNodeGone == [][C30_Step]_vars /\ []C30_FreedUnreachable

\* two lines were evicted, an access followed, and the teardown has run
C30_Witness ==
    /\ pc = "exit0"
    /\ linesPerSet = 2
    /\ myStats.evictions = 2
    /\ outcome = "Hit"
    /\ Cardinality(freed) = Len(heap)

====
